---- MODULE Spec2Model ----
(***************************************************************************)
(* Task assignment engine of the workforce repository                      *)
(* (src/assignments/services.py, class TaskAssignmentService, and the      *)
(* /assign-tasks endpoint of src/assignments/api.py).                      *)
(*                                                                         *)
(* The Task, Employee, Position and Assignment tables are the stored       *)
(* state. One request walks create_task_assignments: the query for the     *)
(* tasks, the query for the employees, the dispatch on the method, the     *)
(* greedy loop (one step per loop iteration) or the LP solve, then         *)
(* calculate_kpi_metrics and the summary. The two queries are two          *)
(* statements outside any transaction, each joined with the position       *)
(* names stored when it runs.                                              *)
(*                                                                         *)
(* The workforce schedule table (class WorkforceScheduleService and the    *)
(* /workforce-schedule endpoint) is a second request on the stored rows:   *)
(* the two range queries, aggregate_schedule_data and the endpoint's rows. *)
(* Its two querysets are lazy and are read by two statements outside any   *)
(* transaction, so that request is two steps as well.                      *)
(*                                                                         *)
(* The management command load_seed_data is the writer: it may commit its  *)
(* rows before, between or after the statements of either request.         *)
(***************************************************************************)
EXTENDS Integers, Sequences, FiniteSets, TLC

\* ---------------------------------------------------------------- bounds
MaxTasks == 3
MaxWorkers == 2
MaxStoredTasks == 2
MaxRows == 2
\* days in the scaled-down calendar year
DaysPerYear == 2

\* ------------------------------------------------------ program constants
max_hours_per_day == 8
NoPosition == 0
UNASSIGNED == "Unassigned"

\* ------------------------------------------------------------- input sets
PositionIds == {1, 2}
Dates == {1, 2}
Durations == {3, 5}
Methods == {"lp", "greedy", "invalid_method"}
\* the caller passes no method
NoMethod == "omitted"
\* a default that selects the heuristic
DefaultMethodGreedy == "greedy"
\* "method: str = 'lp'" / "method: Literal['lp', 'greedy'] = 'lp'"
DefaultMethod == "lp"
\* Position.name is a unique CharField with no validator: position 1 may
\* carry any name, the text "Unassigned" included.
PositionNameChoices ==
    {[p \in PositionIds |-> IF p = 1 THEN n ELSE "Packer"] : n \in {"Picker", UNASSIGNED}}

\* the schedule endpoint's calendar: one day more than a year
ScheduleDays == 1..(DaysPerYear + 1)
\* Assignment.hours and Task.duration of the stored rows of the schedule
RowHours == {2}
StoredDurations == {3}
\* Employee.name is not unique: employee 2 may carry employee 1's name
EmployeeNameChoices ==
    {[w \in {1, 2} |-> IF w = 1 THEN "Ann" ELSE n] : n \in {"Ann", "Bob"}}
UNASSIGNED_TASKS == "Unassigned Tasks"

VARIABLES
    task_rows,           \* stored Task rows, in query order
    employee_rows,       \* stored Employee rows, in query order
    positionName,        \* Position.id -> Position.name, as stored
    tasks,               \* create_task_assignments: the tasks it has read
    employees,           \* create_task_assignments: the employees it has read
    pc,                  \* position of the request
    requested,           \* what the caller passed as method, NoMethod if nothing
    method,              \* the method parameter of the running request
    todo,                \* greedy: (date, position) groups still to process
    assignments,         \* list of assignment dicts
    unassigned_tasks,    \* list of tasks
    worker_daily_loads,  \* ledger: worker id -> (date -> hours)
    solverStatus,        \* outcome of problem.solve(), "none" before it
    kpi,                 \* KPIMetricsSchema, or NoKpi
    summary,             \* summary dict, or NoSummary
    assignment_rows,     \* stored Assignment rows
    employee_name,       \* Employee.id -> Employee.name
    start_date,          \* the request's range
    end_date,
    schedule_assignments,       \* the evaluated assignments queryset, or NotRead
    schedule_unassigned_tasks,  \* the evaluated unassigned_tasks queryset, or NotRead
    schedule             \* the schedule response, or NoSchedule

vars == <<task_rows, employee_rows, positionName, tasks, employees, pc, requested, method,
          todo, assignments, unassigned_tasks, worker_daily_loads, solverStatus, kpi,
          summary, assignment_rows, employee_name, start_date, end_date,
          schedule_assignments, schedule_unassigned_tasks, schedule>>

\* the stored tables: no request writes them
database == <<task_rows, employee_rows, positionName, employee_name, assignment_rows>>

\* the parameters start_date and end_date of a request
range == <<start_date, end_date>>

\* the two lists create_task_assignments has read
inputs == <<tasks, employees>>

\* the locals of the schedule request
schedule_state == <<schedule_assignments, schedule_unassigned_tasks, schedule>>

\* what the schedule request and the seed loader leave alone
engine_state == <<tasks, employees, pc, requested, method, todo, assignments,
                  unassigned_tasks, worker_daily_loads, solverStatus, kpi, summary>>

\* ----------------------------------------------------------------- helpers
\* sum(a['hours'] for a in assignments), over the first n
RECURSIVE SumHours(_, _)
SumHours(asg, n) == IF n = 0 THEN 0 ELSE asg[n].hours + SumHours(asg, n - 1)

\* sum(t.duration for t in tasks), over the first n
RECURSIVE SumDurations(_, _)
SumDurations(ts, n) == IF n = 0 THEN 0 ELSE ts[n].duration + SumDurations(ts, n - 1)

RECURSIVE SumSet(_, _)
SumSet(S, f) ==
    IF S = {} THEN 0
    ELSE LET x == CHOOSE y \in S : TRUE IN f[x] + SumSet(S \ {x}, f)

Max2(a, b) == IF a >= b THEN a ELSE b

EmptyLedger == <<>>
\* the name read through a foreign key that is null
NoName == ""
NoWorker == [id |-> 0, position |-> NoPosition, position_name |-> NoName]
NoKpi == [computed |-> FALSE]
NoSummary == [computed |-> FALSE]
NoSchedule == [computed |-> FALSE]
\* a queryset that has not been iterated yet
NotRead == [read |-> FALSE]

\* defaultdict read of worker_daily_loads[w][d]: 0 when absent
LoadOf(ledger, w, d) ==
    IF w \in DOMAIN ledger /\ d \in DOMAIN ledger[w] THEN ledger[w][d] ELSE 0

\* ... and the read inserts the missing keys: worker_daily_loads[w] becomes
\* a dict, worker_daily_loads[w][d] becomes 0.
TouchDay(ledger, ws, d) ==
    [w \in DOMAIN ledger \cup ws |->
        LET old == IF w \in DOMAIN ledger THEN ledger[w] ELSE <<>>
        IN  IF w \in ws
            THEN [dd \in DOMAIN old \cup {d} |-> IF dd \in DOMAIN old THEN old[dd] ELSE 0]
            ELSE old]

\* worker_daily_loads[w] alone (calculate_kpi_metrics): inserts an empty dict
TouchWorker(ledger, ws) ==
    [w \in DOMAIN ledger \cup ws |-> IF w \in DOMAIN ledger THEN ledger[w] ELSE <<>>]

\* a commit that overwrites the entry instead of adding to it
AddLoadOverwriting(ledger, w, d, h) ==
    LET l == TouchDay(ledger, {w}, d)
    IN  [l EXCEPT ![w] = [@ EXCEPT ![d] = h]]

\* worker_daily_loads[w][d] += h
AddLoad(ledger, w, d, h) ==
    LET l == TouchDay(ledger, {w}, d)
    IN  [l EXCEPT ![w] = [@ EXCEPT ![d] = @ + h]]

\* ---------------------------------------------------------- greedy strategy
\* position_name = x.position.name if x.position else "Unassigned", x being
\* a task or an employee as its query read it
PositionNameOf(x) == IF x.position = NoPosition THEN UNASSIGNED ELSE x.position_name

\* tasks_by_date_position: groups in order of first occurrence of the key
RECURSIVE GroupTasks(_, _)
GroupTasks(ts, acc) ==
    IF ts = <<>> THEN acc
    ELSE LET t == Head(ts)
             key == <<t.date, PositionNameOf(t)>>
             idx == {i \in DOMAIN acc : acc[i].key = key}
         IN  IF idx = {}
             THEN GroupTasks(Tail(ts), Append(acc, [key |-> key, tasks |-> <<t>>, sorted |-> FALSE]))
             ELSE LET i == CHOOSE j \in idx : TRUE
                  IN  GroupTasks(Tail(ts), [acc EXCEPT ![i].tasks = Append(@, t)])

tasks_by_date_position(ts) == GroupTasks(ts, <<>>)

\* employees_by_position.get(position_name, [])
available_workers(name) ==
    SelectSeq(employees, LAMBDA e : PositionNameOf(e) = name)

\* a sort key that puts the longest task first
SortKeyDescending(t) == 0 - t.duration

\* key=lambda t: t.duration
SortKey(t) == t.duration

\* list.sort(key=...): ascending in the key and stable
RECURSIVE InsertByDuration(_, _)
InsertByDuration(s, t) ==
    IF s = <<>> THEN <<t>>
    ELSE IF SortKey(t) < SortKey(Head(s)) THEN <<t>> \o s
    ELSE <<Head(s)>> \o InsertByDuration(Tail(s), t)

RECURSIVE SortByDuration(_)
SortByDuration(ts) ==
    IF ts = <<>> THEN <<>>
    ELSE InsertByDuration(SortByDuration(SubSeq(ts, 1, Len(ts) - 1)), ts[Len(ts)])

\* a headroom test that forgets the duration of the task being placed
HasHeadroomIgnoringDuration(current_load, duration) == current_load <= max_hours_per_day

\* current_load + task.duration <= max_hours_per_day
HasHeadroom(current_load, duration) == current_load + duration <= max_hours_per_day

\* the scan "for worker in available_workers": min_load starts at infinity
\* (best = NoWorker), and only a strictly lower load replaces the best
RECURSIVE ScanWorkers(_, _, _, _, _)
ScanWorkers(ws, t, ledger, best_worker, min_load) ==
    IF ws = <<>> THEN best_worker
    ELSE LET worker == Head(ws)
             current_load == LoadOf(ledger, worker.id, t.date)
         IN  IF HasHeadroom(current_load, t.duration)
                /\ (best_worker = NoWorker \/ current_load < min_load)
             THEN ScanWorkers(Tail(ws), t, ledger, worker, current_load)
             ELSE ScanWorkers(Tail(ws), t, ledger, best_worker, min_load)

BestWorker(t, ws, ledger) == ScanWorkers(ws, t, ledger, NoWorker, 0)

\* an assignment that books a whole day instead of the task's duration
AssignmentOfFullDay(t, w) ==
    [task |-> t, worker |-> w, work_date |-> t.date, hours |-> max_hours_per_day]

\* the dict appended to assignments
AssignmentOf(t, w) ==
    [task |-> t, worker |-> w, work_date |-> t.date, hours |-> t.duration]

\* One iteration of the loops of assign_tasks_using_greedy on the locals
\* st = [todo, assignments, unassigned_tasks, worker_daily_loads]: a group
\* without workers goes to unassigned_tasks whole ("extend ... continue");
\* otherwise the group is sorted on entry and its next task is placed.
GreedyIter(st) ==
    LET g == Head(st.todo)
        task_date == g.key[1]
        workers == available_workers(g.key[2])
    IN  IF workers = <<>>
        THEN [st EXCEPT !.todo = Tail(st.todo),
                        !.unassigned_tasks = st.unassigned_tasks \o g.tasks]
        ELSE LET position_tasks == IF g.sorted THEN g.tasks ELSE SortByDuration(g.tasks)
                 task == Head(position_tasks)
                 rest == Tail(position_tasks)
                 \* every worker of the group is read at [worker.id][task_date]
                 scanned == TouchDay(st.worker_daily_loads,
                                     {workers[j].id : j \in DOMAIN workers}, task_date)
                 best_worker == BestWorker(task, workers, st.worker_daily_loads)
                 todo2 == IF rest = <<>> THEN Tail(st.todo)
                          ELSE <<[g EXCEPT !.tasks = rest, !.sorted = TRUE]>> \o Tail(st.todo)
             IN  IF best_worker # NoWorker
                 THEN [todo |-> todo2,
                       assignments |-> Append(st.assignments, AssignmentOf(task, best_worker)),
                       unassigned_tasks |-> st.unassigned_tasks,
                       worker_daily_loads |->
                           AddLoad(scanned, best_worker.id, task_date, task.duration)]
                 ELSE [todo |-> todo2,
                       assignments |-> st.assignments,
                       unassigned_tasks |-> Append(st.unassigned_tasks, task),
                       worker_daily_loads |-> scanned]

GreedyStart(ts) ==
    [todo |-> tasks_by_date_position(ts), assignments |-> <<>>,
     unassigned_tasks |-> <<>>, worker_daily_loads |-> EmptyLedger]

\* the whole of assign_tasks_using_greedy(tasks, employees)
RECURSIVE GreedyRun(_)
GreedyRun(st) == IF st.todo = <<>> THEN st ELSE GreedyRun(GreedyIter(st))

assign_tasks_using_greedy(ts) == GreedyRun(GreedyStart(ts))

\* --------------------------------------------------------------- LP strategy
\* task_pos == emp_pos on position ids; "Unassigned" stands for no position
\* (NoPosition here) and is never equal to an id
LpVarExists(t, e) == t.position = e.position

\* x: the (task.id, emp.id) pairs that get a binary variable
LpVariables(ts, es) ==
    {<<i, j>> \in (DOMAIN ts) \X (DOMAIN es) : LpVarExists(ts[i], es[j])}

\* sum of duration over the tasks on date d whose variable for emp j is 1
RECURSIVE LpDayLoadTo(_, _, _, _, _)
LpDayLoadTo(ts, a, j, d, n) ==
    IF n = 0 THEN 0
    ELSE (IF a[n] = j /\ ts[n].date = d THEN ts[n].duration ELSE 0)
         + LpDayLoadTo(ts, a, j, d, n - 1)

RECURSIVE LpObjectiveTo(_, _, _)
LpObjectiveTo(ts, a, n) ==
    IF n = 0 THEN 0
    ELSE (IF a[n] # 0 THEN ts[n].duration ELSE 0) + LpObjectiveTo(ts, a, n - 1)

\* an objective that counts assigned tasks instead of summing their hours
LpObjectiveCount(ts, a) == Cardinality({i \in DOMAIN ts : a[i] # 0})

\* lpSum(x[t, e] * task_lookup[t].duration for (t, e) in x)
LpObjective(ts, a) == LpObjectiveTo(ts, a, Len(ts))

\* The valuations that meet both constraints of the problem.  "Each task
\* assigned to at most one employee" makes a valuation a map task -> employee
\* or 0 over the variables that exist; "each employee cannot exceed max hours
\* per day" bounds the load of every (employee, date).  The maps are built
\* task by task: a day's load only grows as tasks are added, so the bound is
\* tested on the day and employee of the task being added.
RECURSIVE LpFeasibleUpTo(_, _, _)
LpFeasibleUpTo(ts, es, n) ==
    IF n = 0 THEN {<<>>}
    ELSE LET prev == LpFeasibleUpTo(ts, es, n - 1)
             x == LpVariables(ts, es)
             fits == {b \in prev \X {k \in DOMAIN es : <<n, k>> \in x} :
                        LpDayLoadTo(ts, b[1], b[2], ts[n].date, n - 1)
                           + ts[n].duration <= max_hours_per_day}
         IN  {Append(a, 0) : a \in prev} \cup {Append(b[1], b[2]) : b \in fits}

LpFeasible(ts, es) == LpFeasibleUpTo(ts, es, Len(ts))

\* problem.solve() with status Optimal: any valuation of maximal objective
LpOptimal(ts, es) ==
    LET F == LpFeasible(ts, es)
        values == {LpObjective(ts, a) : a \in F}
        best == CHOOSE v \in values : \A u \in values : u <= v
    IN  {a \in F : LpObjective(ts, a) = best}

\* "for (t_id, e_id), var in x.items(): if var.value() == 1": task-major order
RECURSIVE LpAssignmentsFrom(_, _, _, _)
LpAssignmentsFrom(ts, es, a, i) ==
    IF i > Len(ts) THEN <<>>
    ELSE (IF a[i] # 0 THEN <<AssignmentOf(ts[i], es[a[i]])>> ELSE <<>>)
         \o LpAssignmentsFrom(ts, es, a, i + 1)

LpAssignments(ts, es, a) == LpAssignmentsFrom(ts, es, a, 1)

\* worker_daily_loads[emp.id][task.date] += task.duration per assignment
RECURSIVE LedgerOf(_, _)
LedgerOf(asg, ledger) ==
    IF asg = <<>> THEN ledger
    ELSE LedgerOf(Tail(asg),
                  AddLoad(ledger, Head(asg).worker.id, Head(asg).work_date, Head(asg).hours))

\* a parse loop that reports every task as unassigned
LpUnassignedAll(ts, asg) == ts

\* "for task in tasks: if task.id not in assigned_task_ids"
LpUnassigned(ts, asg) ==
    LET assigned_task_ids == {asg[k].task.id : k \in DOMAIN asg}
    IN  SelectSeq(ts, LAMBDA t : t.id \notin assigned_task_ids)

\* ------------------------------------------------------ calculate_kpi_metrics
\* num / den is a binary double: the quotient rounded to a 53-bit mantissa.
\* The three operators below find on which side of the quotient the double
\* lies. BinaryDigitsBelowOne: the s with 2^-s <= num/den < 2^(1-s), for
\* 0 < num < den.
RECURSIVE BinaryDigitsBelowOne(_, _)
BinaryDigitsBelowOne(num, den) ==
    IF num >= den THEN 0 ELSE 1 + BinaryDigitsBelowOne(2 * num, den)

\* the s with 2^s <= num/den < 2^(s+1), for num >= den
RECURSIVE BinaryDigitsAboveOne(_, _)
BinaryDigitsAboveOne(num, den) ==
    IF num < 2 * den THEN 0 ELSE 1 + BinaryDigitsAboveOne(num, 2 * den)

\* (x * 2^e) % den
RECURSIVE TimesPowerOfTwoMod(_, _, _)
TimesPowerOfTwoMod(x, e, den) ==
    IF e = 0 THEN x % den ELSE TimesPowerOfTwoMod((2 * x) % den, e - 1, den)

\* what the mantissa's rounding cuts off or adds: with the quotient scaled
\* to 53 bits, the remainder of the division against half the divisor.
\* -1: the double is below num/den, 1: above, 0: the double is num/den.
DoubleSide(num, den) ==
    LET e == IF num < den THEN 52 + BinaryDigitsBelowOne(num, den)
             ELSE 52 - BinaryDigitsAboveOne(num, den)
        rest == TimesPowerOfTwoMod(num, e, den)
    IN  IF rest = 0 \/ 2 * rest = den THEN 0
        ELSE IF 2 * rest < den THEN 0 - 1 ELSE 1

\* round(num / den, 3) in thousandths, num >= 0 and den > 0. round() gives
\* the multiple of 0.001 nearest to the double; when num/den lies midway
\* between two of them, the side of the double decides, and the even
\* neighbour when the double is exactly midway (0.0625 -> 0.062, while
\* 13/80 is stored above 0.1625 and gives 0.163).
RoundMilli(num, den) ==
    LET q == (1000 * num) \div den
        r == (1000 * num) % den
    IN  IF 2 * r < den THEN q
        ELSE IF 2 * r > den THEN q + 1
        ELSE LET side == DoubleSide(num, den)
             IN  IF side < 0 THEN q
                 ELSE IF side > 0 THEN q + 1
                 ELSE IF q % 2 = 0 THEN q ELSE q + 1

OrOne(n) == IF n = 0 THEN 1 ELSE n

DistinctDates(ledger) == UNION {DOMAIN ledger[w] : w \in DOMAIN ledger}

WorkerTotal(ledger, w) ==
    IF w \in DOMAIN ledger THEN SumSet(DOMAIN ledger[w], ledger[w]) ELSE 0

RECURSIVE MaxOver(_, _)
MaxOver(S, f) ==
    IF S = {} THEN 0
    ELSE LET x == CHOOSE y \in S : TRUE IN Max2(f[x], MaxOver(S \ {x}, f))

\* a worker's total over all dates in place of the worker's largest day
WorkerMaxDailySummed(ledger, w) ==
    IF w \in DOMAIN ledger THEN SumSet(DOMAIN ledger[w], ledger[w]) ELSE 0

WorkerMaxDaily(ledger, w) ==
    IF w \in DOMAIN ledger THEN MaxOver(DOMAIN ledger[w], ledger[w]) ELSE 0

\* a task count that forgets the unassigned tasks
total_tasks_assigned_only(asg, unas) == Len(asg)

\* total_tasks = len(assignments) + len(unassigned_tasks)
total_tasks(asg, unas) == Len(asg) + Len(unas)

\* a day count that takes the result for a single day
num_days_single(ledger) == OrOne(0)

\* num_days = len(distinct_dates) or 1
num_days(ledger) == OrOne(Cardinality(DistinctDates(ledger)))

\* the capacity of a single day, whatever the number of days
max_possible_hours_one_day(workers, days) == OrOne(workers * max_hours_per_day)

\* max_possible_hours = (total_workers * max_hours_per_day * num_days) or 1
max_possible_hours(workers, days) == OrOne(workers * max_hours_per_day * days)

\* sorted ascending (x[np.argsort(x)])
RECURSIVE InsertAscending(_, _)
InsertAscending(s, v) ==
    IF s = <<>> THEN <<v>>
    ELSE IF v < Head(s) THEN <<v>> \o s
    ELSE <<Head(s)>> \o InsertAscending(Tail(s), v)

RECURSIVE SortAscending(_)
SortAscending(s) ==
    IF s = <<>> THEN <<>>
    ELSE InsertAscending(SortAscending(Tail(s)), Head(s))

\* sum(values), over the first n
RECURSIVE SumValues(_, _)
SumValues(s, n) == IF n = 0 THEN 0 ELSE s[n] + SumValues(s, n - 1)

\* (arange(1, n + 1) * sorted).sum(), over the first n
RECURSIVE RankSum(_, _)
RankSum(s, n) == IF n = 0 THEN 0 ELSE n * s[n] + RankSum(s, n - 1)

NaN == [nan |-> TRUE, milli |-> 0]
Milli(m) == [nan |-> FALSE, milli |-> m]

\* gini.Gini(values).g of the inequality package, then round(g, 3):
\*   n_x_sum = n * x.sum(); r_x = (2 * arange(1, n + 1) * sorted(x)).sum()
\*   g = (r_x - n_x_sum - x_sum) / n_x_sum
\* a floating-point array division, so 0 / 0 is nan and nothing is raised
GiniOf(values) ==
    LET n == Len(values)
        x_sum == SumValues(values, n)
        n_x_sum == n * x_sum
        r_x == 2 * RankSum(SortAscending(values), n)
    IN  IF n_x_sum = 0 THEN NaN
        ELSE Milli(RoundMilli(r_x - n_x_sum - x_sum, n_x_sum))

\* _calculate_gini_coefficient: "if not values or len(values) == 1: return 0.0"
calculate_gini_coefficient(values) ==
    IF Len(values) = 0 \/ Len(values) = 1 THEN Milli(0) ELSE GiniOf(values)

KpiMetrics(asg, unas, ledger, es) ==
    LET total_workers == Len(es)
        total_assigned_hours == SumHours(asg, Len(asg))
        days == num_days(ledger)
        possible == max_possible_hours(total_workers, days)
        ids == {es[j].id : j \in DOMAIN es}
        worker_loads == [j \in DOMAIN es |-> WorkerTotal(ledger, es[j].id)]
    IN  [computed |-> TRUE,
         utilization_rate |-> RoundMilli(total_assigned_hours, possible),
         max_worker_load |-> MaxOver(ids, [w \in ids |-> WorkerMaxDaily(ledger, w)]),
         unassigned_hours |-> SumDurations(unas, Len(unas)),
         gini_coefficient |-> calculate_gini_coefficient(worker_loads),
         total_workers |-> total_workers,
         total_tasks |-> total_tasks(asg, unas),
         total_assigned_hours |-> total_assigned_hours,
         num_days |-> days,
         max_possible_hours |-> possible,
         worker_loads |-> worker_loads]

\* "for worker in employees: ... worker_daily_loads[worker.id].values()":
\* the ledger is a defaultdict, so the read gives every employee a key
LedgerAfterKpi(ledger, es) == TouchWorker(ledger, {es[j].id : j \in DOMAIN es})

\* summary of create_task_assignments
SummaryOf(asg, unas, es) ==
    [computed |-> TRUE,
     assigned_tasks |-> Len(asg),
     unassigned_tasks |-> Len(unas),
     unassigned_task_ids |-> [k \in DOMAIN unas |-> unas[k].id],
     total_positions |-> Cardinality({PositionNameOf(es[j]) : j \in DOMAIN es})]

\* ------------------------------------------------------------------- inputs
\* Worker positions range over no position and both positions; task
\* positions over no position and position 1, which gives every pairing:
\* equal positions, both without, one side without, two different positions.
WorkerPositions == {NoPosition} \cup PositionIds
TaskPositions == {NoPosition, 1}

NonDecreasing(f, n) == \A i \in 1..(n - 1) : f[i] <= f[i + 1]

\* Task ids follow the list order. Lists are enumerated by non-decreasing
\* date: the date is part of every group key and of every capacity
\* constraint, so tasks of different dates never meet.
TaskLists ==
    UNION {{[i \in 1..n |-> [id |-> i, position |-> f[i][1], duration |-> f[i][2], date |-> dt[i]]] :
              f \in [1..n -> TaskPositions \X Durations],
              dt \in {g \in [1..n -> Dates] : NonDecreasing(g, n)}} : n \in 0..MaxTasks}

\* Employee ids follow the list order; rosters are enumerated by
\* non-decreasing position (employees of one position keep their id order).
WorkerLists ==
    UNION {{[j \in 1..n |-> [id |-> j, position |-> f[j]]] :
              f \in {g \in [1..n -> WorkerPositions] : NonDecreasing(g, n)}} : n \in 0..MaxWorkers}

\* ------------------------------------------- create_task_assignments' queries
\* list(Task.objects.filter(date__gte=start_date, date__lte=end_date)
\*     .select_related('position')): one statement, which reads the stored
\* tasks of the range, each with the name of its position as that name is
\* stored when the statement runs
TaskQuery(ts, pn, s, e) ==
    LET sel == SelectSeq(ts, LAMBDA t : s <= t.date /\ t.date <= e)
    IN  [k \in DOMAIN sel |->
            [id |-> sel[k].id, position |-> sel[k].position,
             duration |-> sel[k].duration, date |-> sel[k].date,
             position_name |-> IF sel[k].position = NoPosition THEN NoName
                               ELSE pn[sel[k].position]]]

\* list(Employee.objects.all().select_related('position')): a second
\* statement, which reads the employees and the position names stored by then
EmployeeQuery(es, pn) ==
    [j \in DOMAIN es |->
        [id |-> es[j].id, position |-> es[j].position,
         position_name |-> IF es[j].position = NoPosition THEN NoName
                           ELSE pn[es[j].position]]]

\* the assignment request's range covers every date of the stored tasks
Init ==
    /\ task_rows \in TaskLists
    /\ employee_rows \in WorkerLists
    /\ positionName \in PositionNameChoices
    /\ tasks = <<>>
    /\ employees = <<>>
    /\ pc = "idle"
    /\ requested = "none"
    /\ method = "none"
    /\ todo = <<>>
    /\ assignments = <<>>
    /\ unassigned_tasks = <<>>
    /\ worker_daily_loads = EmptyLedger
    /\ solverStatus = "none"
    /\ kpi = NoKpi
    /\ summary = NoSummary
    /\ assignment_rows = <<>>
    /\ employee_name \in EmployeeNameChoices
    /\ employee_name[2] = "Bob"
    /\ start_date = 1
    /\ end_date = 2
    /\ schedule_assignments = NotRead
    /\ schedule_unassigned_tasks = NotRead
    /\ schedule = NoSchedule

\* ------------------------------------------------------------------ actions
\* the parameter's value: the argument, or the default when there is none
MethodParameter(m) == IF m = NoMethod THEN DefaultMethod ELSE m

\* TaskAssignmentService.create_task_assignments(start, end, method) up to
\* "tasks = list(Task.objects.filter(...).select_related('position'))": the
\* call binds method and the first statement runs on what is stored now
ReadTasks(m) ==
    /\ method' = m
    /\ tasks' = TaskQuery(task_rows, positionName, start_date, end_date)
    /\ pc' = "employees"
    /\ UNCHANGED <<database, range, schedule_state, employees, todo, assignments,
                   unassigned_tasks, worker_daily_loads, solverStatus, kpi, summary>>

CreateTaskAssignments ==
    /\ pc = "idle"
    /\ \E m \in Methods \cup {NoMethod} :
          /\ requested' = m
          /\ ReadTasks(MethodParameter(m))

\* api.assign_tasks: method is Literal['lp', 'greedy']; any other value is
\* answered 422 by the request validation and the service is not called;
\* otherwise the service is called, with no transaction around it
ApiAssignTasks ==
    /\ pc = "idle"
    /\ \E m \in Methods \cup {NoMethod} :
          /\ requested' = m
          /\ IF MethodParameter(m) \in {"lp", "greedy"}
             THEN ReadTasks(MethodParameter(m))
             ELSE /\ pc' = "rejected"
                  /\ method' = m
                  /\ UNCHANGED <<database, range, schedule_state, inputs, todo, assignments,
                                 unassigned_tasks, worker_daily_loads, solverStatus, kpi,
                                 summary>>

\* "if method == 'greedy' ... else: # Default to LP method"
Dispatch(m) ==
    IF m = "greedy"
    THEN /\ pc' = "greedy"
         /\ todo' = GreedyStart(tasks).todo
    ELSE /\ pc' = "lp"
         /\ todo' = <<>>

\* "employees = list(Employee.objects.all().select_related('position'))":
\* the second statement runs on what is stored by then, and the request
\* goes on to the strategy with the two lists it has read
ReadEmployees ==
    /\ pc = "employees"
    /\ employees' = EmployeeQuery(employee_rows, positionName)
    /\ Dispatch(method)
    /\ UNCHANGED <<database, range, schedule_state, tasks, requested, method, assignments,
                   unassigned_tasks, worker_daily_loads, solverStatus, kpi, summary>>

\* one iteration of assign_tasks_using_greedy
GreedyStep ==
    /\ pc = "greedy"
    /\ todo # <<>>
    /\ LET st == GreedyIter([todo |-> todo, assignments |-> assignments,
                             unassigned_tasks |-> unassigned_tasks,
                             worker_daily_loads |-> worker_daily_loads])
       IN  /\ todo' = st.todo
           /\ assignments' = st.assignments
           /\ unassigned_tasks' = st.unassigned_tasks
           /\ worker_daily_loads' = st.worker_daily_loads
    /\ UNCHANGED <<database, range, schedule_state, inputs, pc, requested, method, solverStatus, kpi, summary>>

\* "return assignments, unassigned_tasks, worker_daily_loads"
GreedyReturn ==
    /\ pc = "greedy"
    /\ todo = <<>>
    /\ pc' = "kpi"
    /\ UNCHANGED <<database, range, schedule_state, inputs, requested, method, todo, assignments, unassigned_tasks,
                   worker_daily_loads, solverStatus, kpi, summary>>

\* assign_tasks_using_lp, the solver ending with an optimal valuation
LpSolve ==
    /\ pc = "lp"
    /\ \E a \in LpOptimal(tasks, employees) :
          LET asg == LpAssignments(tasks, employees, a)
          IN  /\ assignments' = asg
              /\ worker_daily_loads' = LedgerOf(asg, EmptyLedger)
              /\ unassigned_tasks' = LpUnassigned(tasks, asg)
    /\ solverStatus' = "Optimal"
    /\ pc' = "kpi"
    /\ UNCHANGED <<database, range, schedule_state, inputs, requested, method, todo, kpi, summary>>

\* "except PulpSolverError as e: raise RuntimeError(...)"
LpSolverError ==
    /\ pc = "lp"
    /\ solverStatus' = "PulpSolverError"
    /\ pc' = "raised"
    /\ UNCHANGED <<database, range, schedule_state, inputs, requested, method, todo, assignments, unassigned_tasks,
                   worker_daily_loads, kpi, summary>>

\* problem.solve() returning with a status other than Optimal and no
\* variable valued: the status is not read, var.value() is None for every
\* variable, and the parse loop runs as usual
LpSolveInconclusive ==
    /\ pc = "lp"
    /\ solverStatus' = "Not Solved"
    /\ assignments' = <<>>
    /\ worker_daily_loads' = EmptyLedger
    /\ unassigned_tasks' = LpUnassigned(tasks, <<>>)
    /\ pc' = "kpi"
    /\ UNCHANGED <<database, range, schedule_state, inputs, requested, method, todo, kpi, summary>>

\* calculate_kpi_metrics, then the summary and the return
CalculateKpiMetrics ==
    /\ pc = "kpi"
    /\ kpi' = KpiMetrics(assignments, unassigned_tasks, worker_daily_loads, employees)
    /\ worker_daily_loads' = LedgerAfterKpi(worker_daily_loads, employees)
    /\ summary' = SummaryOf(assignments, unassigned_tasks, employees)
    /\ pc' = "done"
    /\ UNCHANGED <<database, range, schedule_state, inputs, requested, method, todo, assignments, unassigned_tasks, solverStatus>>

\* ------------------------------------------------- workforce schedule table
UNASSIGNED_POSITION == "Unassigned"

\* strftime('%d %b'): the day and the month without the year, so dates a
\* year apart get the same text
DateLabel(d) == ((d - 1) % DaysPerYear) + 1

\* generate_date_columns: one label per day from start_date to end_date
generate_date_columns(s, e) ==
    [i \in 1..(IF s <= e THEN e - s + 1 ELSE 0) |-> DateLabel(s + i - 1)]

\* Assignment.objects.filter(work_date__gte=start_date, work_date__lte=end_date)
\*     .select_related('worker', 'task', 'task__position'), as one statement
\* reads it: each in-range row with its worker's name, its task's position
\* and that position's name as they are stored when the statement runs
get_assignments_in_range(rows, ts, pn, en, s, e) ==
    LET in_range == SelectSeq(rows, LAMBDA a : s <= a.work_date /\ a.work_date <= e)
    IN  [k \in DOMAIN in_range |->
            LET a == in_range[k]
                p == ts[a.task].position
            IN  [worker |-> a.worker, task |-> a.task,
                 work_date |-> a.work_date, hours |-> a.hours,
                 worker_name |-> IF a.worker = 0 THEN NoName ELSE en[a.worker],
                 position |-> p,
                 position_name |-> IF p = NoPosition THEN NoName ELSE pn[p]]]

\* tasks of the range whose id is not the task_id of an in-range assignment
\* (.exclude(id__in=assigned_task_ids).select_related('position')), as one
\* statement reads it
get_unassigned_tasks_in_range(ts, rows, pn, s, e) ==
    LET assigned_task_ids ==
            {rows[k].task : k \in {i \in DOMAIN rows : s <= rows[i].work_date
                                                        /\ rows[i].work_date <= e}}
        sel == SelectSeq(ts, LAMBDA t : s <= t.date /\ t.date <= e
                                            /\ t.id \notin assigned_task_ids)
    IN  [k \in DOMAIN sel |->
            [id |-> sel[k].id, position |-> sel[k].position,
             duration |-> sel[k].duration, date |-> sel[k].date,
             position_name |-> IF sel[k].position = NoPosition THEN NoName
                               ELSE pn[sel[k].position]]]

\* x.position.name if x.position else UNASSIGNED_POSITION, x being the task
\* of an assignment that was read, or an unassigned task that was read
position_name(x) ==
    IF x.position = NoPosition THEN UNASSIGNED_POSITION ELSE x.position_name

\* position_hours[position_name][date_str], 0 when the key is missing
position_hours(asg, name, label) ==
    LET sel == SelectSeq(asg, LAMBDA a : /\ position_name(a) = name
                                         /\ DateLabel(a.work_date) = label)
    IN  SumHours(sel, Len(sel))

\* worker_hours[worker_name][date_str], filled only "if assignment.worker"
worker_hours(asg, worker_name, label) ==
    LET sel == SelectSeq(asg, LAMBDA a : /\ a.worker # 0
                                         /\ a.worker_name = worker_name
                                         /\ DateLabel(a.work_date) = label)
    IN  SumHours(sel, Len(sel))

\* workers_by_position[position_name]: a set of worker names
workers_by_position(asg, name) ==
    {asg[k].worker_name :
        k \in {i \in DOMAIN asg : asg[i].worker # 0 /\ position_name(asg[i]) = name}}

\* unassigned_tasks_by_position[position_name][date_str]
unassigned_tasks_by_position(unas, name, label) ==
    LET sel == SelectSeq(unas, LAMBDA t : position_name(t) = name /\ DateLabel(t.date) = label)
    IN  SumDurations(sel, Len(sel))

\* set(position_hours.keys()) | set(unassigned_tasks_by_position.keys())
all_positions(asg, unas) ==
    {position_name(asg[k]) : k \in DOMAIN asg}
        \cup {position_name(unas[k]) : k \in DOMAIN unas}

\* the keys of {date_col: ... for date_col in date_columns}
Labels(cols) == {cols[i] : i \in DOMAIN cols}

PositionRow(asg, cols, name) ==
    [name |-> name,
     daily_hours |-> [l \in Labels(cols) |-> position_hours(asg, name, l)]]

WorkerRow(asg, cols, worker_name) ==
    [name |-> worker_name,
     daily_hours |-> [l \in Labels(cols) |-> worker_hours(asg, worker_name, l)]]

UnassignedRow(unas, cols, name) ==
    [name |-> UNASSIGNED_TASKS,
     daily_hours |-> [l \in Labels(cols) |-> unassigned_tasks_by_position(unas, name, l)]]

\* position_workers: the worker rows in the set's iteration order, then the
\* 'Unassigned Tasks' row "if unassigned_daily_hours"
position_workers(asg, unas, cols, name, order) ==
    [i \in DOMAIN order |-> WorkerRow(asg, cols, order[i])]
        \o (IF \E k \in DOMAIN unas : position_name(unas[k]) = name
            THEN <<UnassignedRow(unas, cols, name)>> ELSE <<>>)

\* the orders in which a set of strings can be iterated
SeqsOf(S) ==
    {q \in [1..Cardinality(S) -> S] : \A i, j \in 1..Cardinality(S) : q[i] = q[j] => i = j}

\* aggregate_schedule_data, for one iteration order of all_positions and of
\* each position's worker set
aggregate_schedule_data(asg, unas, cols, porder, worder) ==
    [positions |-> [i \in DOMAIN porder |-> PositionRow(asg, cols, porder[i])],
     workers_by_position |->
         [n \in all_positions(asg, unas) |-> position_workers(asg, unas, cols, n, worder[n])]]

\* get_workforce_schedule: the position row, then its worker rows
RECURSIVE ScheduleRowsFrom(_, _)
ScheduleRowsFrom(data, i) ==
    IF i > Len(data.positions) THEN <<>>
    ELSE LET position == data.positions[i]
             workers == data.workers_by_position[position.name]
         IN  <<[name |-> position.name, type |-> "position",
                daily_hours |-> position.daily_hours]>>
             \o [k \in DOMAIN workers |->
                    [name |-> workers[k].name, type |-> "worker",
                     daily_hours |-> workers[k].daily_hours]]
             \o ScheduleRowsFrom(data, i + 1)

\* stored rows of the schedule request. Task ids follow the list order.
StoredTaskLists ==
    UNION {{[i \in 1..n |-> [id |-> i, position |-> f[i][1], duration |-> f[i][2], date |-> f[i][3]]] :
              f \in [1..n -> TaskPositions \X StoredDurations \X ScheduleDays]} : n \in 0..MaxStoredTasks}

\* Assignment rows: worker 0 is a null worker; unique_together (worker,
\* task) holds for the rows with a worker. The aggregation adds up, so the
\* lists are enumerated in one order only (non-decreasing RowKey).
RowKey(a) == (a.worker * (MaxStoredTasks + 1) + a.task) * (DaysPerYear + 2) + a.work_date

AssignmentRowLists(n_tasks) ==
    LET Rows == [worker : 0..2, task : 1..n_tasks, work_date : ScheduleDays, hours : RowHours]
    IN  UNION {{q \in [1..n -> Rows] :
                  /\ \A i \in 1..(n - 1) : RowKey(q[i]) <= RowKey(q[i + 1])
                  /\ \A i, j \in 1..n :
                        (i # j /\ q[i].worker # 0 /\ q[i].worker = q[j].worker)
                            => q[i].task # q[j].task} : n \in 0..MaxRows}

InitSchedule ==
    /\ task_rows \in StoredTaskLists
    /\ employee_rows = <<[id |-> 1, position |-> NoPosition], [id |-> 2, position |-> NoPosition]>>
    /\ positionName \in PositionNameChoices
    /\ tasks = <<>>
    /\ employees = <<>>
    /\ employee_name \in EmployeeNameChoices
    /\ assignment_rows \in AssignmentRowLists(Len(task_rows))
    /\ start_date \in {1, 2}
    /\ end_date \in ScheduleDays
    /\ schedule_assignments = NotRead
    /\ schedule_unassigned_tasks = NotRead
    /\ schedule = NoSchedule
    /\ pc = "idle"
    /\ requested = "none"
    /\ method = "none"
    /\ todo = <<>>
    /\ assignments = <<>>
    /\ unassigned_tasks = <<>>
    /\ worker_daily_loads = EmptyLedger
    /\ solverStatus = "none"
    /\ kpi = NoKpi
    /\ summary = NoSummary

\* aggregate_schedule_data reaching "for assignment in assignments" (line
\* 62): the assignments queryset runs its statement and keeps the rows
ScheduleReadAssignments ==
    /\ ~schedule_assignments.read
    /\ schedule_assignments' =
           [read |-> TRUE,
            rows |-> get_assignments_in_range(assignment_rows, task_rows, positionName,
                                              employee_name, start_date, end_date)]
    /\ UNCHANGED <<database, range, engine_state, schedule_unassigned_tasks, schedule>>

\* ... reaching "for task in unassigned_tasks" (line 75): the second
\* queryset runs its statement on the rows stored by then; the rest of the
\* request reads nothing more and returns the response
ScheduleReadUnassignedTasks ==
    /\ schedule_assignments.read
    /\ ~schedule.computed
    /\ LET asg == schedule_assignments.rows
           unas == get_unassigned_tasks_in_range(task_rows, assignment_rows, positionName,
                                                 start_date, end_date)
           cols == generate_date_columns(start_date, end_date)
           names == all_positions(asg, unas)
           orders == UNION {SeqsOf(workers_by_position(asg, n)) : n \in names}
       IN  /\ schedule_unassigned_tasks' = [read |-> TRUE, rows |-> unas]
           /\ \E porder \in SeqsOf(names) :
               \E worder \in {f \in [names -> orders] :
                                \A n \in names : f[n] \in SeqsOf(workers_by_position(asg, n))} :
                   LET data == aggregate_schedule_data(asg, unas, cols, porder, worder)
                   IN  schedule' = [computed |-> TRUE,
                                    date_columns |-> cols,
                                    positions |-> data.positions,
                                    workers_by_position |-> data.workers_by_position,
                                    data |-> ScheduleRowsFrom(data, 1)]
    /\ UNCHANGED <<database, range, engine_state, schedule_assignments>>

\* api.get_workforce_schedule -> WorkforceScheduleService.get_workforce_schedule_data:
\* the request is its two reads, no transaction around them
GetWorkforceSchedule ==
    \/ ScheduleReadAssignments
    \/ ScheduleReadUnassignedTasks

\* ------------------------------------------------------------ load_seed_data
\* the files of the seed directory: positions.json, workers.json,
\* tasks.json and assignments.json. Every file names both positions and
\* both workers; tasks and assignments are the first n and the first m <= n
\* of two.
SeedTasks ==
    <<[id |-> 1, position |-> 1, duration |-> 3, date |-> 1],
      [id |-> 2, position |-> NoPosition, duration |-> 3, date |-> 2]>>

SeedAssignments == <<[task_id |-> 1, worker_id |-> 1], [task_id |-> 2, worker_id |-> 2]>>

SeedDirs ==
    {[positions |-> [p \in PositionIds |-> IF p = 1 THEN "Picker" ELSE "Packer"],
      workers |-> <<[id |-> 1, name |-> "Ann", position_id |-> 1],
                    [id |-> 2, name |-> "Bob", position_id |-> NoPosition]>>,
      tasks |-> SubSeq(SeedTasks, 1, n),
      assignments |-> SubSeq(SeedAssignments, 1, m)] : n \in 0..2, m \in 0..2}

\* the directory with every task and every assignment
FullSeedDirs == {seed \in SeedDirs : seed.tasks = SeedTasks /\ seed.assignments = SeedAssignments}

\* the Assignment table is a bag of rows; the list keeps them by RowKey
RECURSIVE InsertRow(_, _)
InsertRow(rows, r) ==
    IF rows = <<>> THEN <<r>>
    ELSE IF RowKey(r) < RowKey(Head(rows)) THEN <<r>> \o rows
    ELSE <<Head(rows)>> \o InsertRow(Tail(rows), r)

\* Assignment(task_id, worker_id, work_date=next(t["date"] ...),
\* hours=next(t["duration"] ...)) from the i-th entry of assignments.json
SeedRow(seed, i) ==
    LET a == seed.assignments[i]
        t == CHOOSE x \in {seed.tasks[k] : k \in DOMAIN seed.tasks} : x.id = a.task_id
    IN  [worker |-> a.worker_id, task |-> a.task_id, work_date |-> t.date, hours |-> t.duration]

\* Assignment.objects.bulk_create(..., ignore_conflicts=True), from entry i
\* on: a row whose (worker, task) is stored already is skipped
RECURSIVE BulkCreateAssignments(_, _, _)
BulkCreateAssignments(rows, seed, i) ==
    IF i > Len(seed.assignments) THEN rows
    ELSE LET r == SeedRow(seed, i)
             conflict == \E k \in DOMAIN rows :
                            r.worker # 0 /\ rows[k].worker = r.worker /\ rows[k].task = r.task
         IN  BulkCreateAssignments(IF conflict THEN rows ELSE InsertRow(rows, r), seed, i + 1)

\* Task.objects.bulk_create(..., ignore_conflicts=True): a task whose id is
\* stored already is skipped
BulkCreateTasks(ts, seed) ==
    ts \o SelectSeq(seed.tasks, LAMBDA t : \A k \in DOMAIN ts : ts[k].id # t.id)

\* Employee.objects.bulk_create(..., ignore_conflicts=True): an employee
\* whose id is stored already is skipped
BulkCreateEmployees(es, seed) ==
    es \o SelectSeq([i \in DOMAIN seed.workers |->
                        [id |-> seed.workers[i].id, position |-> seed.workers[i].position_id]],
                    LAMBDA w : \A k \in DOMAIN es : es[k].id # w.id)

\* Employee.name after that bulk_create: a stored employee keeps its name,
\* an inserted one has the name of workers.json
BulkCreateEmployeeNames(es, en, seed) ==
    [w \in DOMAIN en |->
        IF \E k \in DOMAIN es : es[k].id = w THEN en[w]
        ELSE LET e == CHOOSE x \in {seed.workers[i] : i \in DOMAIN seed.workers} : x.id = w
             IN  e.name]

\* load_seed_data.Command.handle on one of the directories dirs, one
\* transaction. With --truncate every row of the four tables is deleted
\* first. The bulk_create of positions without --truncate inserts nothing:
\* both position ids are stored.
LoadSeedData(dirs) ==
    \E truncate \in BOOLEAN, seed \in dirs :
        /\ \A i \in DOMAIN seed.assignments :
              \E k \in DOMAIN seed.tasks : seed.tasks[k].id = seed.assignments[i].task_id
        /\ IF truncate
           THEN /\ positionName' = seed.positions
                /\ employee_rows' = BulkCreateEmployees(<<>>, seed)
                /\ employee_name' = BulkCreateEmployeeNames(<<>>, employee_name, seed)
                /\ task_rows' = BulkCreateTasks(<<>>, seed)
                /\ assignment_rows' = BulkCreateAssignments(<<>>, seed, 1)
           ELSE /\ positionName' = positionName
                /\ employee_rows' = BulkCreateEmployees(employee_rows, seed)
                /\ employee_name' = BulkCreateEmployeeNames(employee_rows, employee_name, seed)
                /\ task_rows' = BulkCreateTasks(task_rows, seed)
                /\ assignment_rows' = BulkCreateAssignments(assignment_rows, seed, 1)
        /\ Len(assignment_rows') <= MaxRows
        /\ UNCHANGED <<range, engine_state, schedule_state>>

\* ----------------------------------------------------------- specifications
\* the assignment request and the seed loader. The directory is an argument
\* of the command; here it is the one that holds every task and every
\* assignment, loaded with or without --truncate at any moment.
Next ==
    \/ CreateTaskAssignments
    \/ ApiAssignTasks
    \/ ReadEmployees
    \/ GreedyStep
    \/ GreedyReturn
    \/ LpSolve
    \/ LpSolverError
    \/ CalculateKpiMetrics
    \/ LoadSeedData(FullSeedDirs)

Spec == Init /\ [][Next]_vars

\* the same program with a solver that may also end without a solution
NextSolverFault == Next \/ LpSolveInconclusive

SpecSolverFault == Init /\ [][NextSolverFault]_vars

\* the schedule request and the seed loader, on any of the directories
NextSchedule ==
    \/ GetWorkforceSchedule
    \/ LoadSeedData(SeedDirs)

SpecSchedule == InitSchedule /\ [][NextSchedule]_vars

\* ------------------------------------------- tasks longer than a working day
\* Task.duration is a PositiveSmallIntegerField: a task may be longer than
\* max_hours_per_day.
LongDurations == Durations \cup {max_hours_per_day + 1}

LongTaskLists ==
    UNION {{[i \in 1..n |-> [id |-> i, position |-> f[i][1], duration |-> f[i][2], date |-> dt[i]]] :
              f \in [1..n -> TaskPositions \X LongDurations],
              dt \in {g \in [1..n -> Dates] : NonDecreasing(g, n)}} : n \in 0..MaxTasks}

InitLongTasks ==
    /\ task_rows \in LongTaskLists
    /\ employee_rows \in WorkerLists
    /\ positionName \in PositionNameChoices
    /\ tasks = <<>>
    /\ employees = <<>>
    /\ pc = "idle"
    /\ requested = "none"
    /\ method = "none"
    /\ todo = <<>>
    /\ assignments = <<>>
    /\ unassigned_tasks = <<>>
    /\ worker_daily_loads = EmptyLedger
    /\ solverStatus = "none"
    /\ kpi = NoKpi
    /\ summary = NoSummary
    /\ assignment_rows = <<>>
    /\ employee_name \in EmployeeNameChoices
    /\ employee_name[2] = "Bob"
    /\ start_date = 1
    /\ end_date = 2
    /\ schedule_assignments = NotRead
    /\ schedule_unassigned_tasks = NotRead
    /\ schedule = NoSchedule

\* the same program on stored tasks of any positive duration
SpecLongTasks == InitLongTasks /\ [][Next]_vars

\* ================================================================== claims
\* the strategy has returned its triple to create_task_assignments
Returned == pc \in {"kpi", "done"}

HoursOf(asg) == SumHours(asg, Len(asg))

DurationsOf(ts) == SumDurations(ts, Len(ts))

TimesAssigned(t) == Cardinality({k \in DOMAIN assignments : assignments[k].task = t})

TimesUnassigned(t) == Cardinality({k \in DOMAIN unassigned_tasks : unassigned_tasks[k] = t})

\* hours of the assignments given to worker w on date d
HoursOn(w, d) ==
    LET mine == SelectSeq(assignments, LAMBDA x : x.worker.id = w /\ x.work_date = d)
    IN  SumHours(mine, Len(mine))

\* C1: every input task is in exactly one of assignments / unassigned_tasks
\* once a strategy has returned (never twice, never in both, never missing),
\* so the two counts add up to the number of input tasks; while the greedy
\* loop runs no task is ever listed twice.
C1_EveryTaskExactlyOnce ==
    /\ \A i \in DOMAIN tasks : TimesAssigned(tasks[i]) + TimesUnassigned(tasks[i]) <= 1
    /\ Returned =>
          /\ \A i \in DOMAIN tasks : TimesAssigned(tasks[i]) + TimesUnassigned(tasks[i]) = 1
          /\ Len(assignments) + Len(unassigned_tasks) = Len(tasks)

C1_Witness ==
    /\ pc = "done"
    /\ solverStatus = "Optimal"
    /\ Len(assignments) >= 1
    /\ Len(unassigned_tasks) >= 1

\* C2: every assignment pairs a task with a worker of the task's position,
\* "no position" matching only "no position".
C2_PositionsMatch ==
    \A k \in DOMAIN assignments :
        assignments[k].task.position = assignments[k].worker.position

\* C3: for every worker and date the hours of the assignments made so far
\* stay within max_hours_per_day, after every greedy iteration and in every
\* returned result.
C3_DailyCapacityRespected ==
    \A j \in DOMAIN employees : \A d \in Dates :
        HoursOn(employees[j].id, d) <= max_hours_per_day

C3_Witness ==
    /\ pc = "greedy"
    /\ unassigned_tasks # <<>>
    /\ \E j \in DOMAIN employees : \E d \in Dates :
          HoursOn(employees[j].id, d) = max_hours_per_day

\* C4: an assignment carries its task's full duration and its task's date,
\* and no task has two assignments (no splitting across workers or days).
C4_WholeTaskAssigned ==
    \A k \in DOMAIN assignments :
        /\ assignments[k].hours = assignments[k].task.duration
        /\ assignments[k].work_date = assignments[k].task.date
        /\ \E i \in DOMAIN tasks : tasks[i] = assignments[k].task
        /\ \A k2 \in DOMAIN assignments :
              assignments[k2].task.id = assignments[k].task.id => k2 = k

C4_Witness ==
    /\ pc = "done"
    /\ method = "greedy"
    /\ \E k, k2 \in DOMAIN assignments :
          /\ assignments[k].hours = 3 /\ assignments[k].work_date = 1
          /\ assignments[k2].hours = 5 /\ assignments[k2].work_date = 2

\* C5: on the same tasks and employees the LP result carries at least as
\* many assigned hours as the greedy result.
C5_LpAtLeastGreedy ==
    (Returned /\ solverStatus = "Optimal") =>
        HoursOf(assignments) >= HoursOf(assign_tasks_using_greedy(tasks).assignments)

\* the plans the claim ranges over: each task gets at most one worker, of
\* its own position, and every (worker, date) sum stays within the capacity
SamePosition(t, e) == t.position = e.position

RECURSIVE PlanHoursOnTo(_, _, _, _)
PlanHoursOnTo(a, j, d, n) ==
    IF n = 0 THEN 0
    ELSE (IF a[n] = j /\ tasks[n].date = d THEN tasks[n].duration ELSE 0)
         + PlanHoursOnTo(a, j, d, n - 1)

PlanHoursOn(a, j, d) == PlanHoursOnTo(a, j, d, Len(a))

\* built task by task: a task stays out (0) or goes to a worker of its
\* position whose hours on the task's date, with the task added, fit
RECURSIVE PlansUpTo(_)
PlansUpTo(n) ==
    IF n = 0 THEN {<<>>}
    ELSE LET prev == PlansUpTo(n - 1)
         IN  {Append(a, 0) : a \in prev}
             \cup {Append(c[1], c[2]) :
                     c \in {b \in prev \X DOMAIN employees :
                              /\ SamePosition(tasks[n], employees[b[2]])
                              /\ PlanHoursOn(b[1], b[2], tasks[n].date) + tasks[n].duration
                                     <= max_hours_per_day}}

Plans == PlansUpTo(Len(tasks))

RECURSIVE PlanHoursTo(_, _)
PlanHoursTo(a, n) ==
    IF n = 0 THEN 0
    ELSE (IF a[n] # 0 THEN tasks[n].duration ELSE 0) + PlanHoursTo(a, n - 1)

PlanHours(a) == PlanHoursTo(a, Len(a))

\* C6: what assign_tasks_using_lp returns after an optimal solve carries
\* the maximum of assigned hours over all plans, and leaves no hours
\* unassigned whenever some plan places every task (a plan whose hours are
\* the sum of all durations; durations are positive).
C6_LpIsOptimal ==
    (pc = "kpi" /\ solverStatus = "Optimal") =>
        LET hours == {PlanHours(a) : a \in Plans}
        IN  /\ \A h \in hours : h <= HoursOf(assignments)
            /\ HoursOf(assignments) \in hours
            /\ DurationsOf(tasks) \in hours => DurationsOf(unassigned_tasks) = 0

\* an optimal solve that places more hours than the greedy strategy does on
\* the same input and still has to leave a task out
C6_Witness ==
    /\ pc = "kpi"
    /\ solverStatus = "Optimal"
    /\ HoursOf(assignments) > HoursOf(assign_tasks_using_greedy(tasks).assignments)
    /\ unassigned_tasks # <<>>

\* C7: a method other than 'lp' and 'greedy' is rejected and runs neither
\* algorithm.
C7_UnknownMethodRejected ==
    method \notin {"none", "lp", "greedy"} => pc = "rejected"

\* C8: when the solver ends without an optimal solution the call raises;
\* it never goes on to return a result.
C8_SolverFailureIsFatal ==
    solverStatus \notin {"none", "Optimal"} => pc = "raised"

\* no employee of the roster holds the task's position
Unstaffed(t) == \A j \in DOMAIN employees : employees[j].position # t.position

\* C9: a task whose position no employee holds is reported unassigned; when
\* all tasks are of that kind nothing is assigned and the unassigned hours
\* are the sum of all durations.
C9_UnstaffedTasksUnassigned ==
    Returned =>
        /\ \A i \in DOMAIN tasks : Unstaffed(tasks[i]) => TimesUnassigned(tasks[i]) = 1
        /\ (\A i \in DOMAIN tasks : Unstaffed(tasks[i])) =>
              /\ assignments = <<>>
              /\ HoursOf(assignments) = 0
              /\ DurationsOf(unassigned_tasks) = DurationsOf(tasks)

\* C10: calculate_kpi_metrics leaves its arguments as they were: the
\* assignments, the unassigned tasks, the roster and the ledger (worker keys,
\* (worker, date) keys and hours).
C10_KpiLeavesArgumentsUnchanged ==
    [][pc = "kpi" =>
          /\ assignments' = assignments
          /\ unassigned_tasks' = unassigned_tasks
          /\ employees' = employees
          /\ worker_daily_loads' = worker_daily_loads]_vars

\* the ledger's date keys, entries and per-worker totals, read off the ledger
LedgerDates == {d \in Dates : \E w \in DOMAIN worker_daily_loads : d \in DOMAIN worker_daily_loads[w]}

LedgerEntries ==
    UNION {{worker_daily_loads[w][d] : d \in DOMAIN worker_daily_loads[w]} :
             w \in DOMAIN worker_daily_loads}

\* hours of all the assignments given to worker w
TotalLoadOf(w) ==
    LET mine == SelectSeq(assignments, LAMBDA x : x.worker.id = w)
    IN  SumHours(mine, Len(mine))

\* C11: in the KPI report total_workers is the number of employees,
\* total_tasks the number of assignments plus the number of unassigned tasks,
\* total_assigned_hours the sum of the assignments' hours and
\* unassigned_hours the sum of the unassigned tasks' durations; so assigned
\* plus unassigned hours are the durations of all input tasks and total_tasks
\* is the number of input tasks.
C11_KpiCountsAndSums ==
    pc = "done" =>
        /\ kpi.total_workers = Len(employees)
        /\ kpi.total_tasks = Len(assignments) + Len(unassigned_tasks)
        /\ kpi.total_assigned_hours = HoursOf(assignments)
        /\ kpi.unassigned_hours = DurationsOf(unassigned_tasks)
        /\ kpi.total_assigned_hours + kpi.unassigned_hours = DurationsOf(tasks)
        /\ kpi.total_tasks = Len(tasks)

C11_Witness ==
    /\ pc = "done"
    /\ method = "greedy"
    /\ kpi.total_workers = 2
    /\ kpi.total_tasks = 3
    /\ kpi.total_assigned_hours = 8
    /\ kpi.unassigned_hours = 5

\* C12: num_days is the number of distinct dates that are keys of the ledger
\* (1 when there is none), max_possible_hours is total_workers x 8 x num_days
\* (1 when that product is 0), and the reported utilization_rate is
\* total_assigned_hours / max_possible_hours to the third decimal.
C12_UtilizationDerivation ==
    pc = "done" =>
        LET product == Len(employees) * max_hours_per_day * kpi.num_days
            diff == 1000 * HoursOf(assignments) - kpi.utilization_rate * kpi.max_possible_hours
        IN  /\ kpi.num_days = (IF LedgerDates = {} THEN 1 ELSE Cardinality(LedgerDates))
            /\ kpi.max_possible_hours = (IF product = 0 THEN 1 ELSE product)
            /\ 2 * diff <= kpi.max_possible_hours
            /\ -2 * diff <= kpi.max_possible_hours

\* two days in the ledger, and a quotient that is not a whole number of
\* thousandths (11 hours over 2 x 8 x 2)
C12_Witness ==
    /\ pc = "done"
    /\ kpi.num_days = 2
    /\ kpi.max_possible_hours = 32
    /\ kpi.total_assigned_hours = 11
    /\ kpi.utilization_rate = 344

\* C13: max_worker_load is the largest (worker, date) entry of the ledger,
\* 0 when the ledger has no entry, and never above the daily capacity.
C13_MaxWorkerLoad ==
    pc = "done" =>
        /\ kpi.max_worker_load =
              (IF LedgerEntries = {} THEN 0
               ELSE CHOOSE m \in LedgerEntries : \A e \in LedgerEntries : e <= m)
        /\ kpi.max_worker_load <= max_hours_per_day

\* one worker with 8 hours on one date and 3 on the other
C13_Witness ==
    /\ pc = "done"
    /\ kpi.max_worker_load = 8
    /\ \E w \in DOMAIN worker_daily_loads :
          /\ DOMAIN worker_daily_loads[w] = Dates
          /\ \E d \in Dates : worker_daily_loads[w][d] = 3

\* every worker of the roster carries the same total load
EqualLoads ==
    \A i, j \in DOMAIN employees : TotalLoadOf(employees[i].id) = TotalLoadOf(employees[j].id)

\* C14: gini_coefficient lies in [0, 1]; it is exactly 0 with 0 or 1 workers
\* and whenever all workers carry the same total load, the load 0 included.
C14_GiniRangeAndZero ==
    pc = "done" =>
        /\ ~kpi.gini_coefficient.nan
        /\ 0 <= kpi.gini_coefficient.milli
        /\ kpi.gini_coefficient.milli <= 1000
        /\ (Len(employees) <= 1 \/ EqualLoads) => kpi.gini_coefficient.milli = 0

\* C15: with zero tasks, for any roster, the result is empty: no
\* assignment, summary counts 0 and 0, and utilization_rate, max_worker_load,
\* unassigned_hours, gini_coefficient, total_tasks and total_assigned_hours
\* all 0, in every call that runs to its end.
C15_NoTasksAllZero ==
    (tasks = <<>> /\ pc = "done") =>
        /\ assignments = <<>>
        /\ summary.assigned_tasks = 0
        /\ summary.unassigned_tasks = 0
        /\ kpi.utilization_rate = 0
        /\ kpi.max_worker_load = 0
        /\ kpi.unassigned_hours = 0
        /\ ~kpi.gini_coefficient.nan
        /\ kpi.gini_coefficient.milli = 0
        /\ kpi.total_tasks = 0
        /\ kpi.total_assigned_hours = 0

\* the tasks of position p on date d with duration dur
EqualTasks(p, d, dur) ==
    {i \in DOMAIN tasks : tasks[i].position = p /\ tasks[i].date = d /\ tasks[i].duration = dur}

\* the employees holding position p
Holders(p) == {j \in DOMAIN employees : employees[j].position = p}

\* C16: when k tasks of one duration dur share a position and a date, w
\* employees hold that position and k > w * floor(8 / dur), every employee
\* is given at most floor(8 / dur) of these tasks and some hours stay
\* unassigned.
C16_EqualTasksOverCapacity ==
    Returned =>
        \A p \in TaskPositions : \A d \in Dates : \A dur \in Durations :
            LET S == EqualTasks(p, d, dur)
                each == max_hours_per_day \div dur
            IN  Cardinality(S) > Cardinality(Holders(p)) * each =>
                    /\ \A j \in DOMAIN employees :
                          Cardinality({k \in DOMAIN assignments :
                                         /\ assignments[k].worker.id = employees[j].id
                                         /\ \E i \in S : assignments[k].task = tasks[i]}) <= each
                    /\ DurationsOf(unassigned_tasks) > 0
                    /\ pc = "done" => kpi.unassigned_hours > 0

\* C17: the summary counts are the lengths of the two returned lists and add
\* up to the number of tasks; unassigned_task_ids lists the id of every
\* unassigned task once and shares no id with the assignments;
\* total_positions is the number of distinct positions among the employees,
\* the employees without a position counting as one.
C17_SummaryAgrees ==
    pc = "done" =>
        /\ summary.assigned_tasks = Len(assignments)
        /\ summary.unassigned_tasks = Len(unassigned_tasks)
        /\ Len(summary.unassigned_task_ids) = Len(unassigned_tasks)
        /\ \A k \in DOMAIN unassigned_tasks :
              summary.unassigned_task_ids[k] = unassigned_tasks[k].id
        /\ \A k \in DOMAIN summary.unassigned_task_ids : \A a \in DOMAIN assignments :
              summary.unassigned_task_ids[k] # assignments[a].task.id
        /\ summary.assigned_tasks + summary.unassigned_tasks = Len(tasks)
        /\ summary.total_positions =
              Cardinality({employees[j].position : j \in DOMAIN employees})

\* C19: a call without a method runs the LP strategy, and what it returns
\* is what a call with method 'lp' returns on the same stored data: an optimal
\* LP result, with its number of assignments and its total_assigned_hours;
\* the greedy algorithm runs only in a call with method 'greedy'.
C19_DefaultIsLp ==
    /\ requested = NoMethod => (method = "lp" /\ pc # "greedy" /\ todo = <<>>)
    /\ (pc = "greedy" \/ todo # <<>>) => requested = "greedy"
    /\ (requested = NoMethod /\ pc = "done") =>
          LET optimal == LpOptimal(tasks, employees)
              one == CHOOSE a \in optimal : TRUE
          IN  /\ solverStatus = "Optimal"
              /\ kpi.total_assigned_hours = LpObjective(tasks, one)
              /\ \E a \in optimal :
                    /\ assignments = LpAssignments(tasks, employees, a)
                    /\ summary.assigned_tasks = Len(LpAssignments(tasks, employees, a))

\* a call without a method on an input where the LP places more hours than
\* the greedy algorithm would
C19_Witness ==
    /\ requested = NoMethod
    /\ pc = "done"
    /\ kpi.total_assigned_hours > HoursOf(assign_tasks_using_greedy(tasks).assignments)

\* the stored assignments and the days of the requested range
RowsInRange ==
    SelectSeq(assignment_rows, LAMBDA a : start_date <= a.work_date /\ a.work_date <= end_date)

RangeDays == {d \in ScheduleDays : start_date <= d /\ d <= end_date}

\* the stored rows are what the two statements of the request read: no
\* commit since the first of them has changed what either would return
StoredAsRead ==
    /\ schedule_assignments.read
    /\ schedule_unassigned_tasks.read
    /\ schedule_assignments.rows
          = get_assignments_in_range(assignment_rows, task_rows, positionName, employee_name,
                                     start_date, end_date)
    /\ schedule_unassigned_tasks.rows
          = get_unassigned_tasks_in_range(task_rows, assignment_rows, positionName,
                                          start_date, end_date)

\* the name the table shows for the stored position p
StoredPositionName(p) == IF p = NoPosition THEN UNASSIGNED_POSITION ELSE positionName[p]

\* hours of the in-range assignments to tasks of position p on day d
PositionDayHours(p, d) ==
    LET sel == SelectSeq(RowsInRange, LAMBDA a : task_rows[a.task].position = p /\ a.work_date = d)
    IN  SumHours(sel, Len(sel))

\* hours of the in-range assignments of employee w on day d
WorkerDayHours(w, d) ==
    LET sel == SelectSeq(RowsInRange, LAMBDA a : a.worker = w /\ a.work_date = d)
    IN  SumHours(sel, Len(sel))

\* C20: in the schedule table of a request whose reads saw the rows that
\* are stored, for every position with in-range assignments
\* and every day of the range, the position's row shows under that day the
\* sum of the hours of the in-range assignments to that position's tasks on
\* that day; every worker with in-range assignments has a row under each
\* position they worked for, showing under each day the sum of that
\* worker's in-range hours on that day; a day without hours shows 0.
C20_ScheduleHours ==
    (schedule.computed /\ StoredAsRead) =>
        /\ \A p \in {NoPosition} \cup PositionIds :
              (\E k \in DOMAIN RowsInRange : task_rows[RowsInRange[k].task].position = p) =>
                  /\ \E i \in DOMAIN schedule.positions :
                        schedule.positions[i].name = StoredPositionName(p)
                  /\ \A i \in DOMAIN schedule.positions : \A d \in RangeDays :
                        schedule.positions[i].name = StoredPositionName(p) =>
                            schedule.positions[i].daily_hours[DateLabel(d)]
                                = PositionDayHours(p, d)
        /\ \A k \in DOMAIN RowsInRange :
              LET w == RowsInRange[k].worker
                  under == schedule.workers_by_position[
                               StoredPositionName(task_rows[RowsInRange[k].task].position)]
              IN  w # 0 =>
                      /\ \E r \in DOMAIN under : under[r].name = employee_name[w]
                      /\ \A r \in DOMAIN under : \A d \in RangeDays :
                            under[r].name = employee_name[w] =>
                                under[r].daily_hours[DateLabel(d)] = WorkerDayHours(w, d)

\* the in-range tasks of position p that no in-range assignment refers to
TasksWithoutAssignment(p) ==
    {i \in DOMAIN task_rows :
        /\ task_rows[i].position = p
        /\ start_date <= task_rows[i].date /\ task_rows[i].date <= end_date
        /\ \A k \in DOMAIN RowsInRange : RowsInRange[k].task # i}

\* sum of the durations of those tasks on day d
UnassignedDayHours(p, d) ==
    LET sel == SelectSeq(task_rows, LAMBDA t : t.id \in TasksWithoutAssignment(p) /\ t.date = d)
    IN  SumDurations(sel, Len(sel))

\* the 'Unassigned Tasks' rows listed under the position named n
UnassignedRowsUnder(n) ==
    IF n \in DOMAIN schedule.workers_by_position
    THEN {r \in DOMAIN schedule.workers_by_position[n] :
             schedule.workers_by_position[n][r].name = UNASSIGNED_TASKS}
    ELSE {}

\* C21: in the schedule table of a request whose reads saw the rows that
\* are stored, an 'Unassigned Tasks' row appears under a
\* position if and only if some in-range task of that position has no
\* in-range assignment; the row shows under each day the sum of the
\* durations of those tasks on that day; tasks without a position count
\* under the 'Unassigned' position.
C21_UnassignedTasksRow ==
    (schedule.computed /\ StoredAsRead) =>
        \A p \in {NoPosition} \cup PositionIds :
            LET rows == UnassignedRowsUnder(StoredPositionName(p))
                under == schedule.workers_by_position[StoredPositionName(p)]
            IN  /\ (rows # {}) <=> (TasksWithoutAssignment(p) # {})
                /\ \A r \in rows : \A d \in RangeDays :
                      under[r].daily_hours[DateLabel(d)] = UnassignedDayHours(p, d)

\* worker w can take task t under the ledger: load on the task's date plus
\* the task's duration is at most the daily capacity
Headroom(ledger, w, t) ==
    LoadOf(ledger, w.id, t.date) + t.duration <= max_hours_per_day

\* the workers of the task's position that have headroom for it
Candidates(ledger, t) ==
    {j \in DOMAIN employees :
        employees[j].position = t.position /\ Headroom(ledger, employees[j], t)}

\* w is the candidate of lowest load, the first of the roster among equals
LeastLoadedFirst(ledger, t, w) ==
    /\ \E j \in Candidates(ledger, t) : employees[j] = w
    /\ \A j \in Candidates(ledger, t) :
          /\ LoadOf(ledger, w.id, t.date) <= LoadOf(ledger, employees[j].id, t.date)
          /\ LoadOf(ledger, w.id, t.date) = LoadOf(ledger, employees[j].id, t.date)
                => \E i \in 1..j : employees[i] = w

\* C22: every greedy iteration gives the task it processes to the worker of
\* the task's position with the lowest load on the task's date among those
\* with headroom for it, the first in roster order among equals, and
\* reports a task unassigned only when no worker of its position has
\* headroom for it at that moment.
C22_GreedyPicksLeastLoaded ==
    [][(pc = "greedy" /\ todo' # todo) =>
          /\ \A k \in (Len(assignments) + 1)..Len(assignments') :
                LeastLoadedFirst(worker_daily_loads, assignments'[k].task, assignments'[k].worker)
          /\ \A k \in (Len(unassigned_tasks) + 1)..Len(unassigned_tasks') :
                Candidates(worker_daily_loads, unassigned_tasks'[k]) = {}
          /\ Len(assignments') + Len(unassigned_tasks')
                > Len(assignments) + Len(unassigned_tasks)]_vars

\* the tasks greedy has assigned or declared unassigned so far
Processed ==
    {assignments[k].task.id : k \in DOMAIN assignments}
        \cup {unassigned_tasks[k].id : k \in DOMAIN unassigned_tasks}

\* u and t are in one (date, position) group and u comes before t in
\* ascending order of duration, input order deciding among equal durations
SortsBefore(u, t) ==
    /\ u.date = t.date /\ u.position = t.position
    /\ \/ u.duration < t.duration
       \/ u.duration = t.duration /\ u.id < t.id

\* C23: at every moment of a greedy run, a task that has been assigned or
\* declared unassigned is preceded by every task of its (date, position)
\* group that is strictly shorter, or equally long and earlier in the input:
\* all of those have been assigned or declared unassigned already.
C23_ShortestFirst ==
    method = "greedy" =>
        \A i \in DOMAIN tasks : \A j \in DOMAIN tasks :
            (tasks[i].id \in Processed /\ SortsBefore(tasks[j], tasks[i]))
                => tasks[j].id \in Processed

\* mid-run: a group whose longer task came first in the input has its
\* shorter task committed to the ledger and the longer one still waiting
C23_Witness ==
    /\ pc = "greedy"
    /\ \E k \in DOMAIN assignments : \E i \in DOMAIN tasks :
          /\ tasks[i].id < assignments[k].task.id
          /\ tasks[i].date = assignments[k].task.date
          /\ tasks[i].position = assignments[k].task.position
          /\ tasks[i].duration > assignments[k].task.duration
          /\ tasks[i].id \notin Processed

\* C24: the ledger agrees with the assignments made so far: its keys are
\* workers of the roster and dates of the input, for every worker and date
\* the entry (absent read as 0) is the sum of the hours of the assignments
\* given to that worker on that date, and every entry lies between 0 and
\* the daily capacity; after every greedy iteration and in every returned
\* result of either strategy.
C24_LedgerAgreesWithAssignments ==
    /\ DOMAIN worker_daily_loads \subseteq {employees[j].id : j \in DOMAIN employees}
    /\ \A w \in DOMAIN worker_daily_loads : DOMAIN worker_daily_loads[w] \subseteq Dates
    /\ \A j \in DOMAIN employees : \A d \in Dates :
          LoadOf(worker_daily_loads, employees[j].id, d) = HoursOn(employees[j].id, d)
    /\ \A h \in LedgerEntries : 0 <= h /\ h <= max_hours_per_day

\* a worker holds two assignments on one date and the entry is their sum,
\* mid-run in greedy
C24_Witness ==
    /\ pc = "greedy"
    /\ \E k1, k2 \in DOMAIN assignments :
          /\ k1 < k2
          /\ assignments[k1].worker = assignments[k2].worker
          /\ assignments[k1].work_date = assignments[k2].work_date
          /\ worker_daily_loads[assignments[k1].worker.id][assignments[k1].work_date]
                = assignments[k1].hours + assignments[k2].hours

\* the dates on which at least one task was assigned
AssignedDates == {assignments[k].work_date : k \in DOMAIN assignments}

\* C25: in the result of either strategy the dates that are keys of the
\* ledger are exactly the dates on which at least one task was assigned, so
\* num_days and utilization_rate are functions of the assignments alone
\* (two strategies that return the same assignments report the same
\* values), also when a date carries only tasks that could not be assigned.
C25_LedgerDatesAreAssignedDates ==
    /\ Returned => LedgerDates = AssignedDates
    /\ pc = "done" =>
          /\ kpi.num_days = OrOne(Cardinality(AssignedDates))
          /\ kpi.utilization_rate =
                RoundMilli(HoursOf(assignments),
                           max_possible_hours(Len(employees), OrOne(Cardinality(AssignedDates))))

\* C26: when greedy has returned, no unassigned task can still be added to
\* a worker of its position: for every such worker the hours assigned on
\* the task's date plus the task's duration exceed the daily capacity.
C26_GreedyIsMaximal ==
    (method = "greedy" /\ Returned) =>
        \A k \in DOMAIN unassigned_tasks : \A j \in DOMAIN employees :
            employees[j].position = unassigned_tasks[k].position =>
                HoursOn(employees[j].id, unassigned_tasks[k].date)
                    + unassigned_tasks[k].duration > max_hours_per_day

\* C27: in the KPI report of either strategy total_assigned_hours is at most
\* max_possible_hours (total_workers x 8 x num_days, or 1 when that is 0),
\* with num_days counted from the returned ledger; so utilization_rate,
\* kept in thousandths, lies between 0 and 1.
C27_UtilizationWithinUnit ==
    pc = "done" =>
        /\ kpi.max_possible_hours
              = OrOne(Len(employees) * max_hours_per_day * OrOne(Cardinality(LedgerDates)))
        /\ kpi.total_assigned_hours = HoursOf(assignments)
        /\ kpi.total_assigned_hours <= kpi.max_possible_hours
        /\ 0 <= kpi.utilization_rate /\ kpi.utilization_rate <= 1000

\* the bound is met: the only worker is full on the only day of the ledger
C27_Witness ==
    /\ pc = "done"
    /\ kpi.utilization_rate = 1000
    /\ kpi.total_workers = 1
    /\ kpi.total_assigned_hours = max_hours_per_day
    /\ unassigned_tasks # <<>>

\* sum over the first n rows of the hours shown under label l, the
\* 'Unassigned Tasks' row left out
RECURSIVE SumWorkerRows(_, _, _)
SumWorkerRows(rows, l, n) ==
    IF n = 0 THEN 0
    ELSE (IF rows[n].name = UNASSIGNED_TASKS THEN 0 ELSE rows[n].daily_hours[l])
         + SumWorkerRows(rows, l, n - 1)

\* C28: in the schedule table, for every position row and every date
\* column, the position's hours equal the sum of the hours of the worker
\* rows listed under that position, the 'Unassigned Tasks' row excluded.
C28_PositionRowIsSumOfWorkerRows ==
    schedule.computed =>
        \A i \in DOMAIN schedule.positions :
            LET position == schedule.positions[i]
                rows == schedule.workers_by_position[position.name]
            IN  \A l \in DOMAIN position.daily_hours :
                    position.daily_hours[l] = SumWorkerRows(rows, l, Len(rows))

====
